---- MODULE Spec2Model ----
(***************************************************************************)
(* A model of khoj's two flows:                                            *)
(*   - src/search_type/text_search.py: setup, compute_embeddings, query    *)
(*   - src/processor/markdown/markdown_to_jsonl.py: the Markdown converter *)
(* Spec is the text search engine, SpecMd the Markdown converter.          *)
(***************************************************************************)
EXTENDS Integers, Sequences, FiniteSets, TLC

VARIABLES
    jsonlFile,        \* config.compressed_jsonl on disk: [exists, data]
    embeddingsFile,   \* config.embeddings_file on disk: [exists, data]
    model,            \* the TextSearchModel the last successful setup returned
    last,             \* the last call of the search engine and what it returned
    fs,               \* the Markdown files on disk: path -> content (characters)
    md                \* the converter run in progress, and its outcome

searchVars == <<jsonlFile, embeddingsFile, model, last>>
mdVars == <<fs, md>>
vars == <<jsonlFile, embeddingsFile, model, last, fs, md>>

(***************************************************************************)
(* Bounds and program constants                                            *)
(***************************************************************************)
\* the largest of the small corpora
MaxEntries == 3
\* the characters the Markdown files hold in total
MaxChars == 4
\* initialize_model: the number of entries retrieved with the bi-encoder
TopK == 15

Min(a, b) == IF a <= b THEN a ELSE b

(***************************************************************************)
(* Sequences and Python's containers                                       *)
(***************************************************************************)
\* range(n)
Range0(n) == 0 .. (n - 1)

RECURSIVE AscendingSeq(_)
AscendingSeq(S) ==
    IF S = {} THEN <<>>
    ELSE LET m == CHOOSE x \in S : \A y \in S : x <= y
         IN <<m>> \o AscendingSeq(S \ {m})

Reverse(s) == [i \in 1..Len(s) |-> s[Len(s) + 1 - i]]

Permutations1(S) ==
    {p \in [1..Cardinality(S) -> S] : \A i, j \in 1..Cardinality(S) : p[i] = p[j] => i = j}

\* The order in which CPython iterates over a set of small ints. set(range(n))
\* keeps every key i in slot i of a table larger than n, so it is iterated in
\* ascending order. intersection_update rebuilds the table from the elements
\* of the other iterable, in its order and in a smaller table, where keys
\* collide: the order is then whatever the filter's result makes it. Every
\* order is taken for the small sets, the two monotone ones for larger sets.
IterOrders(S, rebuilt) ==
    IF ~rebuilt THEN {AscendingSeq(S)}
    ELSE IF Cardinality(S) <= MaxEntries THEN Permutations1(S)
    ELSE {AscendingSeq(S), Reverse(AscendingSeq(S))}

\* list.sort(key=lambda x: x[field], reverse=True): stable, descending
RECURSIVE InsertDesc(_, _, _)
InsertDesc(sorted, x, field) ==
    IF sorted = <<>> THEN <<x>>
    ELSE IF Head(sorted)[field] >= x[field]
         THEN <<Head(sorted)>> \o InsertDesc(Tail(sorted), x, field)
         ELSE <<x>> \o sorted

RECURSIVE SortDescFrom(_, _, _)
SortDescFrom(done, rest, field) ==
    IF rest = <<>> THEN done
    ELSE SortDescFrom(InsertDesc(done, Head(rest), field), Tail(rest), field)

SortDescMutAscending(s, field) == Reverse(SortDescFrom(<<>>, s, field))

SortDesc(s, field) == SortDescFrom(<<>>, s, field)

(***************************************************************************)
(* Entries, corpora and the two encoders                                   *)
(***************************************************************************)
Texts == <<"a", "b", "c">>
Files == <<"f1.md", "f2.md">>

\* One record of the JSONL corpus
Entry(text, file) == [compiled |-> text, raw |-> text, file |-> file]

\* The corpus text_to_jsonl makes of the input files in state <<n, shift>>
Corpus(in) ==
    [i \in 1..in[1] |->
        Entry(Texts[((i + in[2]) % Len(Texts)) + 1], Files[(i % Len(Files)) + 1])]

\* The states the input files are found in when setup runs
Inputs ==
    {<<0, 0>>, <<MaxEntries - 1, 0>>, <<MaxEntries, 0>>, <<MaxEntries, 1>>, <<2 * (TopK + 1), 0>>}

\* A query string: its words, and the filter terms it carries
NoQuery == [text |-> "", tags |-> {}]
Queries == [text : {"a", "c"}, tags : SUBSET {"word", "file"}]

Rot(v) == <<0 - v[2], v[1]>>

\* bi_encoder.encode of one string: a pretrained model, here a fixed table
EncodeText(text) ==
    CASE text = "a" -> <<6, 8>>
      [] text = "b" -> <<-8, 6>>
      [] text = "c" -> <<0, 5>>
      [] OTHER -> <<10, 0>>

\* bi_encoder.encode of a query: the filter terms left in it change the vector
EncodeQuery(q) ==
    IF q.tags = {} THEN EncodeText(q.text) ELSE Rot(EncodeText(q.text))

ISqrt(n) == CHOOSE r \in 0..n : r * r = n

\* util.normalize_embeddings: every vector scaled to unit length (5 units)
Normalize(v) ==
    LET n == ISqrt(v[1] * v[1] + v[2] * v[2])
    IN <<(v[1] * 5) \div n, (v[2] * 5) \div n>>

\* util.dot_score
Dot(u, v) == u[1] * v[1] + u[2] * v[2]

\* cross_encoder.predict of one (query, text) pair: a pretrained model
CrossScore(q, text) ==
    (IF text = "b" THEN 3 ELSE IF q.text = "c" /\ text = "c" THEN 4 ELSE 2)
        + Cardinality(q.tags)

(***************************************************************************)
(* Files                                                                   *)
(***************************************************************************)
Absent == [exists |-> FALSE, data |-> <<>>]
Stored(data) == [exists |-> TRUE, data |-> data]

\* load_jsonl
extract_entries(file) == file.data

(***************************************************************************)
(* compute_embeddings                                                      *)
(***************************************************************************)
\* The encoding of a list of entries, as the else branch computes it
Encoded(entries) == [i \in 1..Len(entries) |-> Normalize(EncodeText(entries[i].compiled))]

compute_embeddingsMutRecompute(entries, file, regenerate) ==
    IF entries = <<>>
    THEN [status |-> "error", result |-> <<>>, file |-> file, biCalls |-> 1]
    ELSE [status |-> "ok", result |-> Encoded(entries),
          file |-> Stored(Encoded(entries)), biCalls |-> 1]

\* The tensor returned, the cache file afterwards and the bi-encoder calls
\* made. For an empty list of entries the else branch raises: encode stacks
\* an empty list of tensors (or, in later versions of the library, returns a
\* tensor of one dimension, which normalize_embeddings cannot normalise
\* along dimension 1), and nothing is saved.
compute_embeddings(entries, file, regenerate) ==
    IF file.exists /\ ~regenerate
    THEN [status |-> "ok", result |-> file.data, file |-> file, biCalls |-> 0]
    ELSE IF entries = <<>>
    THEN [status |-> "error", result |-> <<>>, file |-> file, biCalls |-> 1]
    ELSE [status |-> "ok", result |-> Encoded(entries),
          file |-> Stored(Encoded(entries)), biCalls |-> 1]

(***************************************************************************)
(* The filters of a TextSearchModel (BaseFilter: can_filter, apply)        *)
(***************************************************************************)
\* The filter lists setup is given
FilterLists == {<<>>, <<"word">>, <<"file", "word">>, <<"word", "file">>}

\* filter.can_filter(query): the query carries the filter's term
can_filter(f, q) == f \in q.tags

\* filter.apply(query, entries): the rewritten query and the indices kept.
\* The word filter keeps the entries that are the query's words and leaves a
\* plain query; the file filter keeps the entries of f1.md and removes its
\* own term.
apply(f, q, entries) ==
    IF f = "word"
    THEN [query |-> [q EXCEPT !.tags = {}],
          indices |-> {i \in Range0(Len(entries)) : entries[i + 1].compiled = q.text}]
    ELSE [query |-> [q EXCEPT !.tags = @ \ {"file"}],
          indices |-> {i \in Range0(Len(entries)) : entries[i + 1].file = "f1.md"}]

(***************************************************************************)
(* query                                                                   *)
(***************************************************************************)
\* filters_in_query: the filters whose can_filter accepts the raw query
filters_in_query(filters, raw_query) ==
    SelectSeq(filters, LAMBDA f : can_filter(f, raw_query))

\* The loop over filters_in_query: each filter is given the query as the
\* filters before it left it and the whole entry list; applied logs the calls.
RECURSIVE FilterLoop(_, _, _, _, _)
FilterLoop(todo, query, included, entries, applied) ==
    IF todo = <<>>
    THEN [query |-> query, included |-> included, applied |-> applied]
    ELSE LET r == apply(Head(todo), query, entries)
         IN FilterLoop(Tail(todo), r.query, included \cap r.indices, entries,
                       Append(applied, [filter |-> Head(todo), query |-> query,
                                        entries |-> entries]))

\* Filter query, entries and embeddings before semantic search
Filtered(raw_query, m) ==
    FilterLoop(filters_in_query(m.filters, raw_query), raw_query,
               Range0(Len(m.entries)), m.entries, <<>>)

Hit(id, score) == [corpus_id |-> id, score |-> score, cross_score |-> 0, ranked |-> FALSE]

\* The position of a hit among hits of equal score, which the library leaves
\* open: by ascending or by descending corpus_id
TieKey(h, n, tie) == IF tie THEN h.corpus_id ELSE n - h.corpus_id

RECURSIVE InsertHit(_, _, _, _)
InsertHit(sorted, x, n, tie) ==
    IF sorted = <<>> THEN <<x>>
    ELSE IF \/ Head(sorted).score > x.score
            \/ /\ Head(sorted).score = x.score
               /\ TieKey(Head(sorted), n, tie) < TieKey(x, n, tie)
         THEN <<Head(sorted)>> \o InsertHit(Tail(sorted), x, n, tie)
         ELSE <<x>> \o sorted

RECURSIVE RankAll(_, _, _, _)
RankAll(done, rest, n, tie) ==
    IF rest = <<>> THEN done
    ELSE RankAll(InsertHit(done, Head(rest), n, tie), Tail(rest), n, tie)

\* util.semantic_search(question_embedding, corpus_embeddings, top_k, dot_score)[0]:
\* the top_k entries by score, in decreasing order of score
semantic_search(question_embedding, corpus_embeddings, top_k, tie) ==
    LET n == Len(corpus_embeddings)
        all == [j \in 1..n |-> Hit(j - 1, Dot(question_embedding, corpus_embeddings[j]))]
    IN SubSeq(RankAll(<<>>, all, n, tie), 1, Min(top_k, n))

Idle ==
    [op |-> "idle", status |-> "ok", regenerate |-> FALSE, cached |-> FALSE,
     argEntries |-> <<>>, result |-> <<>>, biCalls |-> 0, crossCalls |-> 0,
     raw_query |-> NoQuery, rank_results |-> FALSE, query |-> NoQuery,
     included |-> {}, order |-> <<>>, applied |-> <<>>, hits |-> <<>>,
     entries |-> <<>>, top_k |-> 0]

\* if not included_entry_indices: return [], []
no_entries_includedMutNever(included) == FALSE

no_entries_included(included) == included = {}

\* [entries[id] for id in included_entry_indices]
selected_entries(entries, order) == [j \in 1..Len(order) |-> entries[order[j] + 1]]

\* torch.index_select raises for an index tensor that is empty (torch.tensor([])
\* is a float tensor) or holds an index past the last embedding
selectable(corpus_embeddings, order) ==
    /\ order # <<>>
    /\ \A j \in 1..Len(order) : order[j] < Len(corpus_embeddings)

selected_embeddingsMutSorted(corpus_embeddings, order) ==
    LET sorted == AscendingSeq({order[j] : j \in 1..Len(order)})
    IN [j \in 1..Len(sorted) |-> corpus_embeddings[sorted[j] + 1]]

\* torch.index_select(corpus_embeddings, 0, torch.tensor(list(included_entry_indices)))
selected_embeddings(corpus_embeddings, order) ==
    [j \in 1..Len(order) |-> corpus_embeddings[order[j] + 1]]

\* cross_scores = cross_encoder.predict(cross_inp); hits[idx]['cross-score'] = cross_scores[idx]
cross_scored(found, query, entries) ==
    [idx \in 1..Len(found) |->
        [found[idx] EXCEPT
            !.cross_score = CrossScore(query, entries[found[idx].corpus_id + 1].compiled),
            !.ranked = TRUE]]

\* Order results by cross-encoder score followed by bi-encoder score
ranked(hits, rank_results) ==
    LET byScore == SortDesc(hits, "score")
    IN IF rank_results THEN SortDesc(byScore, "cross_score") ELSE byScore

\* What query returns, given the order in which the index set is iterated
\* and how the library orders hits of equal score
query(raw_query, m, rank_results, order, tie) ==
    LET f == Filtered(raw_query, m)
        called == [Idle EXCEPT !.op = "query", !.raw_query = raw_query,
                               !.rank_results = rank_results, !.query = f.query,
                               !.included = f.included, !.applied = f.applied,
                               !.top_k = m.top_k]
    IN IF no_entries_included(f.included) THEN called
       ELSE IF ~selectable(m.corpus_embeddings, order)
       THEN [called EXCEPT !.status = "error", !.order = order]
       ELSE LET entries == selected_entries(m.entries, order)
                corpus_embeddings == selected_embeddings(m.corpus_embeddings, order)
                question_embedding == Normalize(EncodeQuery(f.query))
                found == semantic_search(question_embedding, corpus_embeddings, m.top_k, tie)
                scored == IF rank_results THEN cross_scored(found, f.query, entries)
                          ELSE found
            IN IF Len(entries) = 0 THEN [called EXCEPT !.order = order]
               ELSE [called EXCEPT !.order = order, !.entries = entries,
                                   !.hits = ranked(scored, rank_results),
                                   !.biCalls = 1,
                                   !.crossCalls = IF rank_results THEN 1 ELSE 0]

(***************************************************************************)
(* The search engine's operations                                          *)
(***************************************************************************)
NoModel ==
    [loaded |-> FALSE, entries |-> <<>>, corpus_embeddings |-> <<>>,
     filters |-> <<>>, top_k |-> 0]

\* top_k hits can't be more than the total entries in corpus
setup_top_k(entries) == Min(Len(entries), TopK)

\* The JSONL file after setup's first step: written anew from the input files
\* when it is missing or regenerate is set
setup_jsonl(file, in, regenerate) ==
    IF ~file.exists \/ regenerate THEN Stored(Corpus(in)) ELSE file

\* setup, with the input files in state in. When compute_embeddings raises no
\* model is returned and the caller keeps the one it had. filter.load is
\* given the entries; the filters modelled keep nothing between calls.
Setup(in, regenerate, filters) ==
    LET jsonl == setup_jsonl(jsonlFile, in, regenerate)
        entries == extract_entries(jsonl)
        ce == compute_embeddings(entries, embeddingsFile, regenerate)
    IN /\ last.op = "idle"
       /\ jsonlFile' = jsonl
       /\ embeddingsFile' = ce.file
       /\ model' = IF ce.status = "ok"
                   THEN [loaded |-> TRUE, entries |-> entries,
                         corpus_embeddings |-> ce.result, filters |-> filters,
                         top_k |-> setup_top_k(entries)]
                   ELSE model
       /\ last' = [Idle EXCEPT !.op = "setup", !.status = ce.status,
                               !.regenerate = regenerate,
                               !.cached = embeddingsFile.exists,
                               !.argEntries = entries, !.result = ce.result,
                               !.biCalls = ce.biCalls]
       /\ UNCHANGED mdVars

\* compute_embeddings called on its own, with any entries
ComputeEmbeddings(in, regenerate) ==
    LET ce == compute_embeddings(Corpus(in), embeddingsFile, regenerate)
    IN /\ last.op = "idle"
       /\ embeddingsFile' = ce.file
       /\ last' = [Idle EXCEPT !.op = "compute_embeddings", !.status = ce.status,
                               !.regenerate = regenerate,
                               !.cached = embeddingsFile.exists,
                               !.argEntries = Corpus(in), !.result = ce.result,
                               !.biCalls = ce.biCalls]
       /\ UNCHANGED <<jsonlFile, model, mdVars>>

Query(raw_query, rank_results) ==
    /\ last.op = "idle"
    /\ model.loaded
    /\ \E order \in IterOrders(Filtered(raw_query, model).included,
                               Filtered(raw_query, model).applied # <<>>),
          tie \in BOOLEAN :
          last' = query(raw_query, model, rank_results, order, tie)
    /\ UNCHANGED <<jsonlFile, embeddingsFile, model, mdVars>>

\* Between runs the files are removed or changed
RemoveJsonl ==
    /\ last.op = "idle"
    /\ jsonlFile.exists
    /\ jsonlFile' = Absent
    /\ last' = Idle
    /\ UNCHANGED <<embeddingsFile, model, mdVars>>

RemoveEmbeddings ==
    /\ last.op = "idle"
    /\ embeddingsFile.exists
    /\ embeddingsFile' = Absent
    /\ last' = Idle
    /\ UNCHANGED <<jsonlFile, model, mdVars>>

ChangeJsonl(in) ==
    /\ last.op = "idle"
    /\ jsonlFile.exists
    /\ jsonlFile' = Stored(Corpus(in))
    /\ last' = Idle
    /\ UNCHANGED <<embeddingsFile, model, mdVars>>

\* The caller takes what the call returned (or the exception it raised) and
\* goes on: the program is single-threaded, one call at a time
Return ==
    /\ last.op # "idle"
    /\ last' = Idle
    /\ UNCHANGED <<jsonlFile, embeddingsFile, model, mdVars>>

InitSearch ==
    /\ jsonlFile = Absent
    /\ embeddingsFile = Absent
    /\ model = NoModel
    /\ last = Idle

(***************************************************************************)
(* The Markdown converter: strings are sequences of characters             *)
(***************************************************************************)
MdPaths == {"/notes/a.md", "/notes/b.md"}
Alphabet == {"#", "x", "\n", " "}
Strings(n) == UNION {[1..k -> Alphabet] : k \in 0..n}

\* src.utils.constants.empty_escape_sequences: the characters str.strip removes
empty_escape_sequences == {"\n", "\r", "\t", " "}

\* src.utils.helpers.is_none_or_empty, of a list and of a string
NoList == [none |-> TRUE, items |-> <<>>]
List(items) == [none |-> FALSE, items |-> items]
is_none_or_empty_list(it) == it.none \/ it.items = <<>>
is_none_or_empty_str(it) == it = ""

\* pathlib's suffix of the output file
OutputFiles ==
    {[stem |-> "notes.jsonl", suffix |-> ".gz"], [stem |-> "notes", suffix |-> ".txt"]}

\* glob.glob(get_absolute_path(markdown_file_filter))
glob(pattern) == IF pattern = "/notes/*.md" THEN MdPaths ELSE {}

get_markdown_files(markdown_files, markdown_file_filter) ==
    LET absolute_markdown_files ==
            IF ~is_none_or_empty_list(markdown_files)
            THEN {markdown_files.items[i] : i \in 1..Len(markdown_files.items)}
            ELSE {}
        filtered_markdown_files ==
            IF markdown_file_filter # "" THEN glob(markdown_file_filter) ELSE {}
    IN absolute_markdown_files \cup filtered_markdown_files

\* re.split(r'^#', content, flags=re.MULTILINE): the text before the first
\* '#' that begins a line, and the text after each such '#'
AtLineStart(content, i) == i = 1 \/ content[i - 1] = "\n"

RECURSIVE SplitFrom(_, _, _, _)
SplitFrom(content, i, current, segments) ==
    IF i > Len(content) THEN Append(segments, current)
    ELSE IF content[i] = "#" /\ AtLineStart(content, i)
         THEN SplitFrom(content, i + 1, <<>>, Append(segments, current))
         ELSE SplitFrom(content, i + 1, Append(current, content[i]), segments)

split_headings(content) == SplitFrom(content, 1, <<>>, <<>>)

\* str.strip(chars)
RECURSIVE lstrip(_, _)
lstrip(s, chars) ==
    IF s # <<>> /\ Head(s) \in chars THEN lstrip(Tail(s), chars) ELSE s

RECURSIVE rstrip(_, _)
rstrip(s, chars) ==
    IF s # <<>> /\ s[Len(s)] \in chars THEN rstrip(SubSeq(s, 1, Len(s) - 1), chars) ELSE s

strip(s, chars) == rstrip(lstrip(s, chars), chars)

\* [f'#{entry.strip(empty_escape_sequences)}' for entry in re.split(...)]
markdown_entries_per_file(markdown_content) ==
    LET segments == split_headings(markdown_content)
    IN [k \in 1..Len(segments) |-> <<"#">> \o strip(segments[k], empty_escape_sequences)]

file_map_forMutOnce(markdown_file, n) == <<markdown_file>>

\* [markdown_file]*len(markdown_entries_per_file)
file_map_for(markdown_file, n) == [k \in 1..n |-> markdown_file]

\* One line of the JSONL: json.dumps(entry_dict)
entry_dict(entry, file) == [compiled |-> entry, raw |-> entry, file |-> file]

convert_markdown_entries_to_jsonl(entries, entry_to_file_map) ==
    [entry_id \in 1..Len(entries) |-> entry_dict(entries[entry_id], entry_to_file_map[entry_id])]

ValidationMessage ==
    "At least one of markdown-files or markdown-file-filter is required to be specified"

MdIdle ==
    [pc |-> "idle", caller |-> "", markdown_files |-> NoList,
     markdown_file_filter |-> "", output_file |-> [stem |-> "", suffix |-> ""],
     todo |-> <<>>, processed |-> <<>>, entries |-> <<>>, entry_to_file_map |-> <<>>,
     reads |-> {}, written |-> FALSE, jsonl |-> <<>>, stdout |-> <<>>,
     error |-> "", exit |-> 0]

MdFileArgs == {NoList, List(<<>>), List(<<"/notes/a.md">>), List(<<"/notes/b.md", "/notes/a.md">>)}
MdFilterArgs == {"", "/notes/*.md"}

\* The __main__ block: argparse, then markdown_to_jsonl called with four
\* arguments (args.verbose the fourth). The function takes three: the call
\* raises TypeError before the function's body runs, the traceback goes to
\* standard error and the interpreter exits with status 1.
CliMain(input_files, input_filter, output_file) ==
    /\ md.pc = "idle"
    /\ md' = [MdIdle EXCEPT !.pc = "exit", !.caller = "cli",
                            !.markdown_files = input_files,
                            !.markdown_file_filter = input_filter,
                            !.output_file = output_file,
                            !.error = "TypeError", !.exit = 1]
    /\ UNCHANGED <<fs, searchVars>>

\* markdown_to_jsonl called with its three arguments (as setup calls
\* text_to_jsonl): input validation, then the files to process. The set of
\* files is iterated in an order the string hashes decide.
MarkdownToJsonl(markdown_files, markdown_file_filter, output_file) ==
    LET called == [MdIdle EXCEPT !.caller = "call",
                                 !.markdown_files = markdown_files,
                                 !.markdown_file_filter = markdown_file_filter,
                                 !.output_file = output_file]
    IN /\ md.pc = "idle"
       /\ IF is_none_or_empty_list(markdown_files) /\ is_none_or_empty_str(markdown_file_filter)
          THEN md' = [called EXCEPT !.pc = "exit", !.stdout = <<ValidationMessage>>,
                                    !.exit = 1]
          ELSE \E todo \in Permutations1(get_markdown_files(markdown_files, markdown_file_filter)) :
                  md' = [called EXCEPT !.pc = "extract", !.todo = todo]
       /\ UNCHANGED <<fs, searchVars>>

\* One turn of extract_markdown_entries' loop over the files
ExtractFile ==
    /\ md.pc = "extract"
    /\ md.todo # <<>>
    /\ LET markdown_file == Head(md.todo)
           per_file == markdown_entries_per_file(fs[markdown_file])
       IN md' = [md EXCEPT !.todo = Tail(md.todo),
                           !.processed = Append(md.processed, markdown_file),
                           !.reads = md.reads \cup {markdown_file},
                           !.entry_to_file_map =
                               md.entry_to_file_map \o file_map_for(markdown_file, Len(per_file)),
                           !.entries = md.entries \o per_file]
    /\ UNCHANGED <<fs, searchVars>>

\* The loop is over: convert the entries to JSONL and write the output file
\* when its suffix is .gz or .jsonl. An entry without a file in the map makes
\* entry_to_file_map[entry_id] raise IndexError.
ConvertAndWrite ==
    /\ md.pc = "extract"
    /\ md.todo = <<>>
    /\ IF Len(md.entry_to_file_map) < Len(md.entries)
       THEN md' = [md EXCEPT !.pc = "exit", !.error = "IndexError", !.exit = 1]
       ELSE md' = [md EXCEPT !.pc = "done",
                             !.jsonl = convert_markdown_entries_to_jsonl(md.entries,
                                                                        md.entry_to_file_map),
                             !.written = md.output_file.suffix \in {".gz", ".jsonl"}]
    /\ UNCHANGED <<fs, searchVars>>

\* The run is over; the next one starts afresh
MdReturn ==
    /\ md.pc \in {"done", "exit"}
    /\ md' = MdIdle
    /\ UNCHANGED <<fs, searchVars>>

NoNotes == [p \in MdPaths |-> <<>>]

InitMd ==
    /\ InitSearch
    /\ \E a \in Strings(MaxChars) : \E b \in Strings(MaxChars - Len(a)) :
          fs = [p \in MdPaths |-> IF p = "/notes/a.md" THEN a ELSE b]
    /\ md = MdIdle

(***************************************************************************)
(* Specifications                                                          *)
(***************************************************************************)
Init ==
    /\ InitSearch
    /\ fs = NoNotes
    /\ md = MdIdle

Next ==
    \/ \E in \in Inputs, regenerate \in BOOLEAN, filters \in FilterLists :
          Setup(in, regenerate, filters)
    \/ \E in \in Inputs, regenerate \in BOOLEAN : ComputeEmbeddings(in, regenerate)
    \/ \E raw_query \in Queries, rank_results \in BOOLEAN : Query(raw_query, rank_results)
    \/ RemoveJsonl
    \/ RemoveEmbeddings
    \/ \E in \in Inputs : ChangeJsonl(in)
    \/ Return

Spec == Init /\ [][Next]_vars

\* Setup runs alone, with the files changed or removed between them
NextSetup ==
    \/ \E in \in Inputs, regenerate \in BOOLEAN, filters \in FilterLists :
          Setup(in, regenerate, filters)
    \/ RemoveJsonl
    \/ RemoveEmbeddings
    \/ \E in \in Inputs : ChangeJsonl(in)
    \/ Return

SpecSetup == Init /\ [][NextSetup]_vars

NextMd ==
    \/ \E input_files \in MdFileArgs, input_filter \in MdFilterArgs, output_file \in OutputFiles :
          CliMain(input_files, input_filter, output_file)
    \/ \E markdown_files \in MdFileArgs, markdown_file_filter \in MdFilterArgs,
          output_file \in OutputFiles :
          MarkdownToJsonl(markdown_files, markdown_file_filter, output_file)
    \/ ExtractFile
    \/ ConvertAndWrite
    \/ MdReturn

SpecMd == InitMd /\ [][NextMd]_vars

(***************************************************************************)
(* Properties of the search engine (Spec; C1 under SpecSetup)              *)
(***************************************************************************)
\* Embedding i is the encoding of the compiled text of entry i
Aligned(m) ==
    /\ Len(m.corpus_embeddings) = Len(m.entries)
    /\ \A i \in 1..Len(m.entries) :
          m.corpus_embeddings[i] = Normalize(EncodeText(m.entries[i].compiled))

\* C1: after any sequence of setup runs, with the files changed or removed
\* between them, the model setup returned has as many embeddings as entries
\* and embedding i is the encoding of the compiled text of entry i.
C1_EntriesAndEmbeddingsAligned == model.loaded => Aligned(model)

\* C2: a call of compute_embeddings (on its own or from setup) with
\* regenerate false and the cache file present returns the cached tensor,
\* whatever the entries, makes no bi-encoder call and leaves the cache file
\* as it was, so that calling it again with any entries returns the same
\* tensor.
C2_CachedEmbeddingsReturned ==
    [][(/\ last.op = "idle"
        /\ last'.op \in {"compute_embeddings", "setup"}
        /\ ~last'.regenerate
        /\ embeddingsFile.exists)
       => /\ last'.status = "ok"
          /\ last'.result = embeddingsFile.data
          /\ last'.biCalls = 0
          /\ embeddingsFile' = embeddingsFile
          /\ \A in \in Inputs :
                compute_embeddings(Corpus(in), embeddingsFile', FALSE).result = last'.result]_vars

\* C2's case: the cache was there, regenerate was false, and the entries
\* given are not the ones the cached tensor encodes
C2_Witness ==
    /\ last.op = "compute_embeddings"
    /\ ~last.regenerate
    /\ last.cached
    /\ last.argEntries # <<>>
    /\ last.result # Encoded(last.argEntries)

\* C3: when no filter of the model accepts the query, query keeps the index
\* set 0..len(entries)-1 and returns all the entries of the corpus, in
\* corpus order, with the query not rewritten.
C3_NoFilterReturnsAllEntries ==
    (last.op = "query" /\ filters_in_query(model.filters, last.raw_query) = <<>>)
    => /\ last.status = "ok"
       /\ last.included = Range0(Len(model.entries))
       /\ last.entries = model.entries
       /\ last.query = last.raw_query

\* What of C3 holds of every model whose embeddings are aligned with its entries
C3_HoldsOfAlignedModels == Aligned(model) => C3_NoFilterReturnsAllEntries

\* C4: on a corpus of size 0 query returns an empty hit list and an empty
\* entry list without error, whatever the query, the filters and
\* rank_results, and calls neither encoder.
C4_EmptyCorpusReturnsEmpty ==
    (last.op = "query" /\ model.entries = <<>>)
    => /\ last.status = "ok"
       /\ last.hits = <<>>
       /\ last.entries = <<>>
       /\ last.biCalls = 0
       /\ last.crossCalls = 0

\* C4's case: an empty corpus (beside a stale, non-empty tensor), queried
\* with a filter applied and reranking asked for
C4_Witness ==
    /\ last.op = "query"
    /\ model.entries = <<>>
    /\ model.corpus_embeddings # <<>>
    /\ last.applied # <<>>
    /\ last.rank_results

\* C8: the hits returned are in non-increasing order of cross-encoder score
\* when rank_results is true, hits of equal cross-encoder score in
\* non-increasing order of bi-encoder score, and in non-increasing order of
\* bi-encoder score when rank_results is false; with rank_results true every
\* hit carries the cross-score of the pair (filtered query, compiled text of
\* the entry its corpus_id refers to).
C8_HitsSorted ==
    (last.op = "query" /\ last.status = "ok")
    => LET hits == last.hits
       IN IF last.rank_results
          THEN /\ \A i, j \in 1..Len(hits) : i < j =>
                     \/ hits[i].cross_score > hits[j].cross_score
                     \/ /\ hits[i].cross_score = hits[j].cross_score
                        /\ hits[i].score >= hits[j].score
               /\ \A i \in 1..Len(hits) :
                     /\ hits[i].ranked
                     /\ hits[i].cross_score
                          = CrossScore(last.query, last.entries[hits[i].corpus_id + 1].compiled)
          ELSE \A i, j \in 1..Len(hits) : i < j => hits[i].score >= hits[j].score

\* C8's case: a reranked answer to a query a filter rewrote, in which the
\* cross-encoder reverses the bi-encoder's order of two hits and ties two
\* others of different bi-encoder score
C8_Witness ==
    /\ last.op = "query"
    /\ last.status = "ok"
    /\ last.rank_results
    /\ last.query # last.raw_query
    /\ \E i, j \in 1..Len(last.hits) :
          /\ i < j
          /\ last.hits[i].cross_score > last.hits[j].cross_score
          /\ last.hits[i].score < last.hits[j].score
    /\ \E i, j \in 1..Len(last.hits) :
          /\ i < j
          /\ last.hits[i].cross_score = last.hits[j].cross_score
          /\ last.hits[i].score > last.hits[j].score

\* The query each applied filter is given: the raw query for the first, the
\* query the filter before it returned for the others
RewrittenInTurn(applied, raw_query, entries) ==
    \A i \in 1..Len(applied) :
        /\ applied[i].entries = entries
        /\ applied[i].query =
              IF i = 1 THEN raw_query
              ELSE apply(applied[i - 1].filter, applied[i - 1].query, entries).query

\* The indices every applied filter keeps
Intersection(applied, entries) ==
    {i \in Range0(Len(entries)) :
        \A k \in 1..Len(applied) :
            i \in apply(applied[k].filter, applied[k].query, entries).indices}

\* The entries returned are the corpus entries of the index set, each once
ReturnsExactly(included) ==
    /\ Len(last.order) = Cardinality(included)
    /\ {last.order[j] : j \in 1..Len(last.order)} = included
    /\ Len(last.entries) = Len(last.order)
    /\ \A j \in 1..Len(last.order) : last.entries[j] = model.entries[last.order[j] + 1]

FiltersAppliedInOrder ==
    /\ [i \in 1..Len(last.applied) |-> last.applied[i].filter]
          = SelectSeq(model.filters, LAMBDA f : can_filter(f, last.raw_query))
    /\ RewrittenInTurn(last.applied, last.raw_query, model.entries)
    /\ last.included = Intersection(last.applied, model.entries)

\* C9: query applies the filters whose can_filter accepts the raw query, in
\* model.filters order, each given the query as rewritten by the filters
\* before it and the whole entry list; it returns exactly the corpus entries
\* whose index is in the intersection of the filters' index sets, and
\* ([], []) when the intersection is empty.
C9_FiltersNarrowByIntersection ==
    last.op = "query"
    => /\ FiltersAppliedInOrder
       /\ last.status = "ok"
       /\ IF last.included = {}
          THEN last.hits = <<>> /\ last.entries = <<>>
          ELSE ReturnsExactly(last.included)

\* What of C9 holds of every call: the filters are applied as stated, and a
\* call that returns returns what is stated
C9_HoldsOfReturningCalls ==
    last.op = "query"
    => /\ FiltersAppliedInOrder
       /\ last.status = "ok" =>
             IF last.included = {}
             THEN last.hits = <<>> /\ last.entries = <<>>
             ELSE ReturnsExactly(last.included)

\* C9 holds of every model whose embeddings are aligned with its entries
C9_HoldsOfAlignedModels == Aligned(model) => C9_FiltersNarrowByIntersection

\* C10: query returns at most min(top_k, number of entries returned) hits,
\* and every hit's corpus_id is an index into the entry list returned, of the
\* entry whose embedding produced the hit's score: the entries and the
\* embeddings are selected by the same indices in the same order.
C10_HitsReferToReturnedEntries ==
    (last.op = "query" /\ last.status = "ok")
    => LET hits == last.hits
           question_embedding == Normalize(EncodeQuery(last.query))
       IN /\ Len(hits) <= Min(model.top_k, Len(last.entries))
          /\ \A i, j \in 1..Len(hits) : hits[i].corpus_id = hits[j].corpus_id => i = j
          /\ \A i \in 1..Len(hits) :
                LET id == hits[i].corpus_id
                IN /\ id \in Range0(Len(last.entries))
                   /\ last.entries[id + 1] = model.entries[last.order[id + 1] + 1]
                   /\ hits[i].score
                        = Dot(question_embedding,
                              model.corpus_embeddings[last.order[id + 1] + 1])
                   /\ Aligned(model) =>
                        hits[i].score
                          = Dot(question_embedding,
                                Normalize(EncodeText(last.entries[id + 1].compiled)))

\* C10's case: a filter narrowed the corpus, the index set was iterated out
\* of ascending order, and top_k cut the hits short of the entries returned
C10_Witness ==
    /\ last.op = "query"
    /\ last.status = "ok"
    /\ last.applied # <<>>
    /\ last.order # AscendingSeq(last.included)
    /\ Len(last.hits) = TopK
    /\ Len(last.hits) < Len(last.entries)

(***************************************************************************)
(* Properties of the Markdown converter (checked under SpecMd)             *)
(***************************************************************************)
\* The lines of a file that begin with '#'
HeadingLines(content) ==
    Cardinality({i \in 1..Len(content) :
                    content[i] = "#" /\ (i = 1 \/ content[i - 1] = "\n")})

\* The positions of the entries extracted from a file, and the entries
PositionsOf(file) ==
    SelectSeq([i \in 1..Len(md.entry_to_file_map) |-> i],
              LAMBDA i : md.entry_to_file_map[i] = file)

EntriesOf(file) ==
    [k \in 1..Len(PositionsOf(file)) |-> md.entries[PositionsOf(file)[k]]]

\* C5: a file with N lines beginning with '#' yields N entries when it
\* starts with a heading line and N + 1 when content precedes the first
\* heading; every entry starts with '#'.
C5_EntriesPerHeadingLine ==
    \A k \in 1..Len(md.processed) :
        LET content == fs[md.processed[k]]
            entries == EntriesOf(md.processed[k])
        IN /\ Len(entries) = IF content # <<>> /\ content[1] = "#"
                             THEN HeadingLines(content)
                             ELSE HeadingLines(content) + 1
           /\ \A i \in 1..Len(entries) : entries[i] # <<>> /\ entries[i][1] = "#"

\* What the code yields: one entry more than the file has heading lines,
\* whatever the file starts with; the text before the first heading makes an
\* entry even when there is none
C5_CodeYieldsOneMore ==
    \A k \in 1..Len(md.processed) :
        LET entries == EntriesOf(md.processed[k])
        IN /\ Len(entries) = HeadingLines(fs[md.processed[k]]) + 1
           /\ \A i \in 1..Len(entries) : entries[i] # <<>> /\ entries[i][1] = "#"

\* C6: after every file processed entries and entry_to_file_map have equal
\* length and entry_to_file_map[i] is the file entries[i] was split from
\* (the entries mapped to a file are, in order, those its content splits
\* into); record i of the JSONL carries entries[i] and that path.
C6_EntriesMappedToSourceFile ==
    md.pc \in {"extract", "done"}
    => /\ Len(md.entries) = Len(md.entry_to_file_map)
       /\ \A i \in 1..Len(md.entry_to_file_map) :
             \E k \in 1..Len(md.processed) : md.entry_to_file_map[i] = md.processed[k]
       /\ \A k \in 1..Len(md.processed) :
             EntriesOf(md.processed[k]) = markdown_entries_per_file(fs[md.processed[k]])
       /\ md.pc = "done" =>
             /\ Len(md.jsonl) = Len(md.entries)
             /\ \A i \in 1..Len(md.jsonl) :
                   /\ md.jsonl[i].file = md.entry_to_file_map[i]
                   /\ md.jsonl[i].compiled = md.entries[i]
                   /\ md.jsonl[i].raw = md.entries[i]

\* C6's case: two files of different content, each split into several
\* entries, converted and written
C6_Witness ==
    /\ md.pc = "done"
    /\ md.written
    /\ Len(md.processed) = 2
    /\ \A k \in 1..2 : Len(EntriesOf(md.processed[k])) >= 2
    /\ EntriesOf(md.processed[1]) # EntriesOf(md.processed[2])

\* C7: the converter's command line run with neither --input-files nor
\* --input-filter prints the message and exits with status 1 (not by an
\* uncaught exception), with no Markdown file read and no output written.
C7_CliExitsWithMessage ==
    (/\ md.caller = "cli"
     /\ is_none_or_empty_list(md.markdown_files)
     /\ is_none_or_empty_str(md.markdown_file_filter))
    => /\ md.exit = 1
       /\ md.stdout = <<ValidationMessage>>
       /\ md.error = ""
       /\ md.reads = {}
       /\ ~md.written

\* What holds of markdown_to_jsonl called with its three arguments
C7_CallExitsWithMessage ==
    (/\ md.caller = "call"
     /\ is_none_or_empty_list(md.markdown_files)
     /\ is_none_or_empty_str(md.markdown_file_filter))
    => /\ md.pc = "exit"
       /\ md.exit = 1
       /\ md.stdout = <<ValidationMessage>>
       /\ md.error = ""
       /\ md.reads = {}
       /\ ~md.written

====
